---- MODULE Spec2Model ----
(***************************************************************************)
(* Model of the pension projection engine of projection30_10.py:           *)
(* calculate_taxes, calculate_state_pension_income and project_pension.    *)
(*                                                                         *)
(* Money and rates are exact rationals <<numerator, denominator>> in       *)
(* lowest terms with a positive denominator; the band table's np.inf is    *)
(* the pair <<1, 0>>.  One action models one block of the yearly loop of   *)
(* project_pension, in the order the code runs them.                       *)
(***************************************************************************)
EXTENDS Integers, Sequences, FiniteSets, TLC

(***************************************************************************)
(* Bounds of the model.                                                    *)
(***************************************************************************)
\* max_age - current_age of the longest run: a run simulates Horizon + 1 ages.
Horizon == 2
\* length of the longest band table handed to calculate_taxes on its own.
MaxBands == 3

(***************************************************************************)
(* Exact rational arithmetic.                                              *)
(***************************************************************************)
Abs(n) == IF n < 0 THEN -n ELSE n

RECURSIVE GCD(_, _)
GCD(a, b) == IF b = 0 THEN a ELSE GCD(b, a % b)

Norm(n, d) == LET g == GCD(Abs(n), d) IN <<n \div g, d \div g>>

Q(n) == <<n, 1>>
Frac(n, d) == Norm(n, d)
Inf == <<1, 0>>

RAdd(a, b) ==
    LET g == GCD(a[2], b[2])
    IN  Norm(a[1] * (b[2] \div g) + b[1] * (a[2] \div g), a[2] * (b[2] \div g))

RNeg(a) == <<-a[1], a[2]>>
RSub(a, b) == RAdd(a, RNeg(b))

RMul(a, b) ==
    LET g1 == GCD(Abs(a[1]), b[2])
        g2 == GCD(Abs(b[1]), a[2])
    IN  Norm((a[1] \div g1) * (b[1] \div g2), (a[2] \div g2) * (b[2] \div g1))

\* a <= b and a < b; either side may be Inf, not both.
RLe(a, b) ==
    LET g == GCD(a[2], b[2])
    IN  a[1] * (b[2] \div g) <= b[1] * (a[2] \div g)
RLt(a, b) == ~RLe(b, a)

\* Python's min(a, b) and max(a, b): the first argument unless the second is
\* strictly smaller (larger).
RMin(a, b) == IF RLt(b, a) THEN b ELSE a
RMax(a, b) == IF RLt(a, b) THEN b ELSE a

\* r ** k for an integer k >= 0.
RECURSIVE RPow(_, _)
RPow(r, k) == IF k <= 0 THEN Q(1) ELSE RMul(r, RPow(r, k - 1))

Zero == Q(0)
One == Q(1)

(***************************************************************************)
(* Global assumptions (the module-level dict) and the band table of         *)
(* England; the model runs the engine on this one table.                   *)
(***************************************************************************)
tax_bands_england ==
    << <<Q(12570), Zero>>, <<Q(50270), Frac(20, 100)>>,
       <<Q(125140), Frac(40, 100)>>, <<Inf, Frac(45, 100)>> >>

assumptions ==
    [ inflation_rate |-> Frac(2, 100),
      amc |-> Frac(1, 100),
      state_pension_age |-> 65,
      state_pension_income_now |-> Frac(1060020, 100),
      tax_free_withdrawal_component |-> Frac(25, 100) ]

(***************************************************************************)
(* calculate_taxes: walk the bands in order, taxing the slice of income in *)
(* each band, and stop at the first band the income does not reach.        *)
(***************************************************************************)
\* calculate_taxes with "tax = ..." for "tax += ..." at line 190
RECURSIVE TaxWalkOverwrite(_, _, _, _, _)
TaxWalkOverwrite(inc, bands, k, tax_so_far, previous_threshold) ==
    IF k > Len(bands) THEN tax_so_far
    ELSE IF RLt(previous_threshold, inc)
         THEN LET taxable_income == RSub(RMin(inc, bands[k][1]), previous_threshold)
              IN  TaxWalkOverwrite(inc, bands, k + 1,
                                   RMul(taxable_income, bands[k][2]), bands[k][1])
         ELSE tax_so_far

\* calculate_taxes with "income > threshold" for "income > previous_threshold"
\* at line 188: the walk stops before the band the income ends in
RECURSIVE TaxWalkFilledBands(_, _, _, _, _)
TaxWalkFilledBands(inc, bands, k, tax_so_far, previous_threshold) ==
    IF k > Len(bands) THEN tax_so_far
    ELSE IF RLt(bands[k][1], inc)
         THEN LET taxable_income == RSub(RMin(inc, bands[k][1]), previous_threshold)
              IN  TaxWalkFilledBands(inc, bands, k + 1,
                                     RAdd(tax_so_far, RMul(taxable_income, bands[k][2])),
                                     bands[k][1])
         ELSE tax_so_far

RECURSIVE TaxWalk(_, _, _, _, _)
TaxWalk(inc, bands, k, tax_so_far, previous_threshold) ==
    IF k > Len(bands) THEN tax_so_far
    ELSE IF RLt(previous_threshold, inc)
         THEN LET taxable_income == RSub(RMin(inc, bands[k][1]), previous_threshold)
              IN  TaxWalk(inc, bands, k + 1,
                          RAdd(tax_so_far, RMul(taxable_income, bands[k][2])),
                          bands[k][1])
         ELSE tax_so_far

calculate_taxes(inc, bands) == TaxWalk(inc, bands, 1, Zero, Zero)

(***************************************************************************)
(* calculate_state_pension_income                                          *)
(***************************************************************************)
calculate_state_pension_income(current_age) ==
    LET years_until_state_pension == assumptions.state_pension_age - current_age
    IN  IF years_until_state_pension <= 0
        THEN assumptions.state_pension_income_now
        ELSE RMul(assumptions.state_pension_income_now,
                  RPow(RAdd(One, assumptions.inflation_rate), years_until_state_pension))

(***************************************************************************)
(* State of one call of project_pension.  input holds the caller's         *)
(* arguments; the other variables are the locals of the function, under    *)
(* their names in the code.                                                *)
(***************************************************************************)
VARIABLES
    input,                              \* the arguments of the call
    pc,                                 \* position in project_pension
    age,                                \* loop variable over years
    retirement_age,                     \* parameter, reassigned at line 244
    partial_tax_free_cash,              \* parameter, reassigned at line 315
    ufpls_amount,                       \* parameter, reassigned at line 323
    uncrystallised_fund,
    crystallised_fund,
    annual_contribution,
    state_pension_income_at_retirement,
    annual_retirement_income_adjusted,
    max_tax_free_cash_available,
    tax_free_cash,
    income,
    tax,
    net_income,
    shortfall,
    sp_income,
    adjusted_db_pension,
    years,                              \* ages already recorded
    uncrystallised_fund_values,
    crystallised_fund_values,
    total_fund_values,
    incomes,
    taxes,
    net_incomes,
    shortfalls,
    tax_args,                           \* a direct call of calculate_taxes: its arguments
    tax_results,                        \* and what it returned
    returned                            \* what the caller holds of an earlier run

locals ==
    <<retirement_age, partial_tax_free_cash, ufpls_amount, uncrystallised_fund,
      crystallised_fund, annual_contribution, state_pension_income_at_retirement,
      annual_retirement_income_adjusted, max_tax_free_cash_available,
      tax_free_cash, income, tax, net_income, shortfall, sp_income,
      adjusted_db_pension>>

series ==
    <<years, uncrystallised_fund_values, crystallised_fund_values,
      total_fund_values, incomes, taxes, net_incomes, shortfalls>>

taxcall == <<tax_args, tax_results>>

vars == <<input, pc, age, locals, series, taxcall, returned>>

(***************************************************************************)
(* The arguments the model runs the engine on.                             *)
(***************************************************************************)
Accumulation == "Accumulation"
CapitalOnly == "Decumulation - capital only"
IncomeCapital == "Decumulation Income (capital)"
Strategies == {Accumulation, CapitalOnly, IncomeCapital}

NoTfc == "No tax-free cash"
FullTfc == "Full tax-free cash"
PartialTfc == "Partial tax-free cash"
Ufpls == "UFPLS"
TaxFreeCashOptions == {NoTfc, FullTfc, PartialTfc, Ufpls}

CurrentAges == {64}
InitialFunds == {Q(0), Q(40000)}
MonthlyContributions == {0, 100}
EmployerContributions == {100}
SalaryGrowthRates == {Frac(1, 2)}
\* Rates are halves and wholes: amounts then stay rationals with small
\* denominators over the whole run.
InflationRates == {Zero, One}
\* investment_growth_rate - amc - inflation_rate: the net growth factor is
\* 1/2, 1 or 2.
NetGrowthRates == {Frac(-1, 2), Zero, One}
TargetIncomes == {Q(12000)}
AnnualRetirementIncomes == {Q(8000), Q(24000)}
DbPensionIncomes == {Q(4000)}
ExistingTfcWithdrawals == {Q(0), Q(5000)}

\* The amounts main() collects only for the option or strategy that reads them
\* (lines 556, 566, 622-641); it passes 0 for the others.
PartialAmounts(strategy, option) ==
    IF option # PartialTfc THEN {Q(0)}
    ELSE IF strategy = Accumulation THEN {Q(5000), Q(30000)} ELSE {Q(5000)}
UfplsAmounts(strategy, option) ==
    IF option # Ufpls THEN {Q(0)}
    ELSE IF strategy = Accumulation THEN {Q(20000), Q(60000)} ELSE {Q(20000)}
ImmediateCapitalGoals(strategy) ==
    IF strategy = Accumulation THEN {Q(0)} ELSE {Q(0), Q(5000), Q(30000)}
ContributionsOf(strategy) ==
    IF strategy = Accumulation THEN MonthlyContributions ELSE {0}
EmployerContributionsOf(strategy) ==
    IF strategy = Accumulation THEN EmployerContributions ELSE {0}
\* existing_tfc_withdrawals is read only for max_tax_free_cash_available,
\* which only the immediate withdrawal of line 286 reads.
ExistingOf(strategy, goal) ==
    IF strategy = IncomeCapital /\ goal # Q(0) THEN ExistingTfcWithdrawals ELSE {Q(0)}
\* main() passes "No tax-free cash" for the decumulation strategies (line 639);
\* the engine is also run on UFPLS there, the option line 338 tests.
OptionsOf(strategy) ==
    IF strategy = Accumulation THEN TaxFreeCashOptions ELSE {NoTfc, Ufpls}

Init ==
    \E current_age \in CurrentAges, strategy \in Strategies, fund \in InitialFunds,
       infl \in InflationRates, net \in NetGrowthRates,
       sal \in SalaryGrowthRates, target \in TargetIncomes,
       ari \in AnnualRetirementIncomes, sp \in BOOLEAN, db \in BOOLEAN,
       dbinc \in DbPensionIncomes :
    \E ret \in current_age .. current_age + Horizon,
       max_age \in {current_age, current_age + Horizon},
       option \in OptionsOf(strategy),
       mc \in ContributionsOf(strategy), ec \in EmployerContributionsOf(strategy),
       goal \in ImmediateCapitalGoals(strategy) :
    \E partial \in PartialAmounts(strategy, option),
       ufpls \in UfplsAmounts(strategy, option),
       existing \in ExistingOf(strategy, goal),
       start \in {ret, ret + 1}, end \in {ret, max_age} :
       /\ input = [ current_age |-> current_age,
                    retirement_age |-> ret,
                    initial_fund |-> fund,
                    monthly_contribution |-> mc,
                    monthly_employer_contribution |-> ec,
                    investment_growth_rate |-> RAdd(net, RAdd(assumptions.amc, infl)),
                    salary_growth_rate |-> sal,
                    inflation_rate |-> infl,
                    target_income |-> target,
                    annual_retirement_income |-> ari,
                    include_state_pension |-> sp,
                    include_db_pension |-> db,
                    db_pension_income |-> dbinc,
                    db_pension_age |-> ret,
                    income_start_age |-> start,
                    income_end_age |-> end,
                    tax_free_cash_option |-> option,
                    partial_tax_free_cash |-> partial,
                    ufpls_amount |-> ufpls,
                    strategy |-> strategy,
                    immediate_capital_goal |-> goal,
                    existing_tfc_withdrawals |-> existing,
                    max_age |-> max_age,
                    tax_bands |-> tax_bands_england ]
       /\ pc = "start"
       /\ age = current_age
       /\ retirement_age = ret
       /\ partial_tax_free_cash = partial
       /\ ufpls_amount = ufpls
       /\ uncrystallised_fund = Zero
       /\ crystallised_fund = Zero
       /\ annual_contribution = Zero
       /\ state_pension_income_at_retirement = Zero
       /\ annual_retirement_income_adjusted = Zero
       /\ max_tax_free_cash_available = Zero
       /\ tax_free_cash = Zero
       /\ income = Zero
       /\ tax = Zero
       /\ net_income = Zero
       /\ shortfall = Zero
       /\ sp_income = Zero
       /\ adjusted_db_pension = Zero
       /\ years = << >>
       /\ uncrystallised_fund_values = << >>
       /\ crystallised_fund_values = << >>
       /\ total_fund_values = << >>
       /\ incomes = << >>
       /\ taxes = << >>
       /\ net_incomes = << >>
       /\ shortfalls = << >>
       /\ tax_args = << >>
       /\ tax_results = << >>
       /\ returned = << >>

(***************************************************************************)
(* Lines 229-253: the empty output series and the starting locals.         *)
(***************************************************************************)
\* a list created once, outside the function, for the "= []" of lines 230-236
SharedList(earlier) == earlier

\* lines 229-236: "= []" binds a new, empty list, whatever the name held
NewList(earlier) == << >>

Setup ==
    /\ pc = "start"
    /\ years' = NewList(years)
    /\ uncrystallised_fund_values' = NewList(uncrystallised_fund_values)
    /\ crystallised_fund_values' = NewList(crystallised_fund_values)
    /\ total_fund_values' = NewList(total_fund_values)
    /\ incomes' = NewList(incomes)
    /\ taxes' = NewList(taxes)
    /\ net_incomes' = NewList(net_incomes)
    /\ shortfalls' = NewList(shortfalls)
    /\ uncrystallised_fund' = input.initial_fund
    /\ crystallised_fund' = Zero
    /\ annual_contribution' =
         Q((input.monthly_contribution + input.monthly_employer_contribution) * 12)
    /\ retirement_age' =
         IF input.strategy = IncomeCapital /\ (retirement_age - input.current_age) <= 1
         THEN input.current_age ELSE retirement_age
    /\ state_pension_income_at_retirement' =
         calculate_state_pension_income(input.current_age)
    /\ annual_retirement_income_adjusted' = input.annual_retirement_income
    /\ max_tax_free_cash_available' =
         RMax(Zero, RSub(RMul(input.initial_fund, assumptions.tax_free_withdrawal_component),
                         input.existing_tfc_withdrawals))
    /\ age' = input.current_age
    /\ pc' = "loop"
    /\ UNCHANGED <<input, partial_tax_free_cash, ufpls_amount, tax_free_cash, income,
                   tax, net_income, shortfall, sp_income, adjusted_db_pension, taxcall,
                   returned>>

(***************************************************************************)
(* Lines 255-259: the next age of the loop; the uncrystallised fund grows  *)
(* by the net growth factor.                                               *)
(***************************************************************************)
GrowthFactor ==
    RSub(RSub(RAdd(One, input.investment_growth_rate), assumptions.amc),
         input.inflation_rate)

\* np.arange(current_age, max_age) for np.arange(current_age, max_age + 1)
LoopStopsBeforeMaxAge == age < input.max_age

\* years = np.arange(current_age, max_age + 1): the ages left to simulate.
LoopContinues == age <= input.max_age

Growth ==
    /\ pc = "loop"
    /\ LoopContinues
    /\ tax_free_cash' = Zero
    /\ uncrystallised_fund' = RMul(uncrystallised_fund, GrowthFactor)
    /\ pc' = IF age < retirement_age THEN "pre" ELSE "post"
    /\ UNCHANGED <<input, age, retirement_age, partial_tax_free_cash, ufpls_amount,
                   crystallised_fund, annual_contribution,
                   state_pension_income_at_retirement,
                   annual_retirement_income_adjusted, max_tax_free_cash_available,
                   income, tax, net_income, shortfall, sp_income,
                   adjusted_db_pension, series, taxcall, returned>>

(***************************************************************************)
(* Lines 262-272: a pre-retirement age.  Accumulation adds the year's      *)
(* contribution and escalates it; no income is drawn.                      *)
(***************************************************************************)
PreRetirement ==
    /\ pc = "pre"
    /\ IF input.strategy = Accumulation
       THEN /\ uncrystallised_fund' = RAdd(uncrystallised_fund, annual_contribution)
            /\ annual_contribution' =
                 RMul(annual_contribution, RAdd(One, input.salary_growth_rate))
       ELSE UNCHANGED <<uncrystallised_fund, annual_contribution>>
    /\ income' = Zero
    /\ tax' = Zero
    /\ net_income' = Zero
    /\ shortfall' = Zero
    /\ pc' = "immediate"
    /\ UNCHANGED <<input, age, retirement_age, partial_tax_free_cash, ufpls_amount,
                   crystallised_fund, state_pension_income_at_retirement,
                   annual_retirement_income_adjusted, max_tax_free_cash_available,
                   tax_free_cash, sp_income, adjusted_db_pension, series, taxcall, returned>>

(***************************************************************************)
(* Lines 274-294: the immediate capital need of a decumulation strategy,   *)
(* at the first simulated age of a pre-retirement year.                    *)
(***************************************************************************)
\* lines 275-276 without the "age == current_age" of line 275
ImmediateCapitalDueEveryYear ==
    /\ input.strategy # Accumulation
    /\ RLt(Zero, input.immediate_capital_goal)

\* lines 275-276: the first simulated age of a decumulation run with a goal
ImmediateCapitalDue ==
    /\ age = input.current_age
    /\ input.strategy # Accumulation
    /\ RLt(Zero, input.immediate_capital_goal)

ImmediateCapital ==
    /\ pc = "immediate"
    /\ IF ImmediateCapitalDue
       THEN /\ IF input.strategy = CapitalOnly
               THEN LET withdrawal == RMin(input.immediate_capital_goal, uncrystallised_fund)
                    IN  /\ uncrystallised_fund' = RSub(uncrystallised_fund, withdrawal)
                        /\ income' = withdrawal
                        /\ tax' = calculate_taxes(withdrawal, input.tax_bands)
                        /\ net_income' =
                             RSub(withdrawal, calculate_taxes(withdrawal, input.tax_bands))
                        /\ UNCHANGED <<crystallised_fund, max_tax_free_cash_available>>
               ELSE IF input.strategy = IncomeCapital
               THEN LET withdrawal ==
                            RMin(input.immediate_capital_goal, max_tax_free_cash_available)
                    IN  /\ uncrystallised_fund' =
                             RSub(uncrystallised_fund, RMul(withdrawal, Q(4)))
                        /\ crystallised_fund' =
                             RAdd(crystallised_fund, RMul(withdrawal, Q(3)))
                        /\ income' = withdrawal
                        /\ net_income' = withdrawal
                        /\ max_tax_free_cash_available' =
                             RSub(max_tax_free_cash_available, withdrawal)
                        /\ UNCHANGED tax
               ELSE UNCHANGED <<uncrystallised_fund, crystallised_fund, income, tax,
                                net_income, max_tax_free_cash_available>>
            /\ shortfall' = Zero
       ELSE UNCHANGED <<uncrystallised_fund, crystallised_fund, income, tax,
                        net_income, max_tax_free_cash_available, shortfall>>
    /\ pc' = "record"
    /\ UNCHANGED <<input, age, retirement_age, partial_tax_free_cash, ufpls_amount,
                   annual_contribution, state_pension_income_at_retirement,
                   annual_retirement_income_adjusted, tax_free_cash, sp_income,
                   adjusted_db_pension, series, taxcall, returned>>

(***************************************************************************)
(* Lines 297-334: a post-retirement age.  The desired income is escalated  *)
(* (not in the retirement-age year), and in the retirement-age year of an  *)
(* Accumulation run the selected tax-free cash option is applied.          *)
(***************************************************************************)
\* target_income - net_income without the max(0, ...) of lines 330 and 390
ShortfallSigned(target, net) == RSub(target, net)

\* line 330 and line 390
ShortfallOf(target, net) == RMax(Zero, RSub(target, net))

\* lines 307-310 without the "uncrystallised_fund = 0" of line 311
FullTaxFreeCashNotEmptied(uncrystallised, crystallised) ==
    LET cash == RMul(uncrystallised, assumptions.tax_free_withdrawal_component)
    IN  [ tax_free_cash |-> cash,
          crystallised_fund |-> RAdd(crystallised, RSub(uncrystallised, cash)),
          uncrystallised_fund |-> RSub(uncrystallised, cash) ]

\* lines 307-311: a quarter of the fund leaves as cash, the rest crystallises.
FullTaxFreeCash(uncrystallised, crystallised) ==
    LET cash == RMul(uncrystallised, assumptions.tax_free_withdrawal_component)
    IN  [ tax_free_cash |-> cash,
          crystallised_fund |-> RAdd(crystallised, RSub(uncrystallised, cash)),
          uncrystallised_fund |-> Zero ]

\* line 305 with "age >= retirement_age" for "age == retirement_age"
TaxFreeCashOptionAppliesFrom == age >= retirement_age /\ input.strategy = Accumulation

\* line 305: the retirement-age year of an Accumulation run
TaxFreeCashOptionApplies == age = retirement_age /\ input.strategy = Accumulation

RetirementTfc ==
    /\ pc = "post"
    /\ annual_retirement_income_adjusted' =
         IF age = retirement_age THEN input.annual_retirement_income
         ELSE RMul(annual_retirement_income_adjusted, RAdd(One, input.inflation_rate))
    /\ IF TaxFreeCashOptionApplies
       THEN IF input.tax_free_cash_option = FullTfc
            THEN LET r == FullTaxFreeCash(uncrystallised_fund, crystallised_fund)
                 IN  /\ tax_free_cash' = r.tax_free_cash
                     /\ crystallised_fund' = r.crystallised_fund
                     /\ uncrystallised_fund' = r.uncrystallised_fund
                     /\ UNCHANGED <<partial_tax_free_cash, ufpls_amount, income, tax,
                                    net_income, shortfall>>
            ELSE IF input.tax_free_cash_option = PartialTfc
            THEN LET max_tfc == RMul(uncrystallised_fund,
                                     assumptions.tax_free_withdrawal_component)
                     partial == RMin(partial_tax_free_cash, max_tfc)
                     crystallised_amount == RMul(partial, Q(3))
                 IN  /\ partial_tax_free_cash' = partial
                     /\ crystallised_fund' = RAdd(crystallised_fund, crystallised_amount)
                     /\ uncrystallised_fund' =
                          RSub(RSub(uncrystallised_fund, partial), crystallised_amount)
                     /\ tax_free_cash' = partial
                     /\ UNCHANGED <<ufpls_amount, income, tax, net_income, shortfall>>
            ELSE IF input.tax_free_cash_option = Ufpls
            THEN LET amount == RMin(ufpls_amount, uncrystallised_fund)
                     tfc == RMul(amount, Frac(25, 100))
                     taxable_cash == RMul(amount, Frac(75, 100))
                     inc == RAdd(taxable_cash, tfc)
                     t == calculate_taxes(RSub(inc, tfc), input.tax_bands)
                 IN  /\ ufpls_amount' = amount
                     /\ uncrystallised_fund' = RSub(uncrystallised_fund, amount)
                     /\ tax_free_cash' = tfc
                     /\ income' = inc
                     /\ tax' = t
                     /\ net_income' = RSub(inc, t)
                     /\ shortfall' = ShortfallOf(input.target_income, RSub(inc, t))
                     /\ UNCHANGED <<partial_tax_free_cash, crystallised_fund>>
            ELSE /\ tax_free_cash' = Zero
                 /\ UNCHANGED <<partial_tax_free_cash, ufpls_amount, uncrystallised_fund,
                                crystallised_fund, income, tax, net_income, shortfall>>
       ELSE UNCHANGED <<partial_tax_free_cash, ufpls_amount, uncrystallised_fund,
                        crystallised_fund, tax_free_cash, income, tax, net_income,
                        shortfall>>
    /\ pc' = "passive"
    /\ UNCHANGED <<input, age, retirement_age, annual_contribution,
                   state_pension_income_at_retirement, max_tax_free_cash_available,
                   sp_income, adjusted_db_pension, series, taxcall, returned>>

(***************************************************************************)
(* Lines 336-352: state and DB pension income of the year, unless a UFPLS  *)
(* was taken in this same year.                                            *)
(***************************************************************************)
\* line 338, negated: the retirement-age year of an Accumulation run with UFPLS.
UfplsYear ==
    /\ input.tax_free_cash_option = Ufpls
    /\ ~(age > retirement_age)
    /\ input.strategy = Accumulation

\* lines 341-345: the state pension payable at age a
StatePensionAt(a) ==
    IF input.include_state_pension /\ a >= assumptions.state_pension_age
    THEN RMul(state_pension_income_at_retirement,
              RPow(RAdd(One, input.inflation_rate), a - assumptions.state_pension_age))
    ELSE Zero

\* lines 348-352: the DB pension payable at age a
DbPensionAt(a) ==
    IF input.include_db_pension /\ a >= input.db_pension_age
    THEN RMul(input.db_pension_income,
              RPow(RAdd(One, input.inflation_rate), a - input.db_pension_age))
    ELSE Zero

PassiveIncome ==
    /\ pc = "passive"
    /\ IF ~UfplsYear
       THEN /\ sp_income' = StatePensionAt(age)
            /\ adjusted_db_pension' = DbPensionAt(age)
            /\ income' = RAdd(RAdd(Zero, StatePensionAt(age)), DbPensionAt(age))
       ELSE UNCHANGED <<sp_income, adjusted_db_pension, income>>
    /\ pc' = "drawdown"
    /\ UNCHANGED <<input, age, retirement_age, partial_tax_free_cash, ufpls_amount,
                   uncrystallised_fund, crystallised_fund, annual_contribution,
                   state_pension_income_at_retirement,
                   annual_retirement_income_adjusted, max_tax_free_cash_available,
                   tax_free_cash, tax, net_income, shortfall, series, taxcall, returned>>

(***************************************************************************)
(* Lines 354-383: inside the drawdown window, the income still needed is   *)
(* drawn from the uncrystallised fund (tax-free, with the 3x transfer into *)
(* the crystallised fund) or else from the crystallised fund.              *)
(***************************************************************************)
\* line 355 testing only the start of the window
WindowIgnoresEnd == input.income_start_age <= age

\* line 355
InDrawdownWindow == input.income_start_age <= age /\ age <= input.income_end_age

\* line 360 asking for a fund that covers the whole need
DrawsUncrystallisedIfEnough(remaining_needed) ==
    RLt(remaining_needed, uncrystallised_fund) /\ RLt(Zero, remaining_needed)

\* line 360: the uncrystallised fund is drawn while it has money and income
\* is still needed; line 372 is its else branch.
DrawsUncrystallised(remaining_needed) ==
    RLt(Zero, uncrystallised_fund) /\ RLt(Zero, remaining_needed)

Drawdown ==
    /\ pc = "drawdown"
    /\ IF InDrawdownWindow
       THEN LET remaining_needed == RMax(Zero, RSub(annual_retirement_income_adjusted, income))
                escalated == RMul(remaining_needed,
                                  RPow(RAdd(One, input.inflation_rate), age - retirement_age))
            IN  IF DrawsUncrystallised(remaining_needed)
                THEN LET withdrawal == RMin(uncrystallised_fund, escalated)
                         rest == RSub(uncrystallised_fund, withdrawal)
                         crystallised_amt == RMul(withdrawal, Q(3))
                     IN  /\ crystallised_fund' = RAdd(crystallised_fund, crystallised_amt)
                         /\ uncrystallised_fund' = RSub(rest, RMin(rest, crystallised_amt))
                         /\ income' = RAdd(income, withdrawal)
                         /\ tax_free_cash' = withdrawal
                ELSE IF RLt(Zero, crystallised_fund)
                THEN LET withdrawal == RMin(crystallised_fund, escalated)
                     IN  /\ crystallised_fund' = RSub(crystallised_fund, withdrawal)
                         /\ income' = RAdd(income, withdrawal)
                         /\ tax_free_cash' = Zero
                         /\ UNCHANGED uncrystallised_fund
                ELSE UNCHANGED <<uncrystallised_fund, crystallised_fund, income,
                                 tax_free_cash>>
       ELSE UNCHANGED <<uncrystallised_fund, crystallised_fund, income, tax_free_cash>>
    /\ pc' = "tax"
    /\ UNCHANGED <<input, age, retirement_age, partial_tax_free_cash, ufpls_amount,
                   annual_contribution, state_pension_income_at_retirement,
                   annual_retirement_income_adjusted, max_tax_free_cash_available,
                   tax, net_income, shortfall, sp_income, adjusted_db_pension, series, taxcall, returned>>

(***************************************************************************)
(* Lines 385-390: tax on the income less its tax-free part, net income and *)
(* the shortfall against the target.                                       *)
(***************************************************************************)
TaxAndShortfall ==
    /\ pc = "tax"
    /\ LET t == calculate_taxes(RSub(income, tax_free_cash), input.tax_bands)
       IN  /\ tax' = t
           /\ net_income' = RSub(income, t)
           /\ shortfall' = ShortfallOf(input.target_income, RSub(income, t))
    /\ pc' = "record"
    /\ UNCHANGED <<input, age, retirement_age, partial_tax_free_cash, ufpls_amount,
                   uncrystallised_fund, crystallised_fund, annual_contribution,
                   state_pension_income_at_retirement,
                   annual_retirement_income_adjusted, max_tax_free_cash_available,
                   tax_free_cash, income, sp_income, adjusted_db_pension, series, taxcall, returned>>

(***************************************************************************)
(* Lines 392-400: the year's record is appended to every series.           *)
(***************************************************************************)
Record ==
    /\ pc = "record"
    /\ years' = Append(years, age)
    /\ uncrystallised_fund_values' = Append(uncrystallised_fund_values, uncrystallised_fund)
    /\ crystallised_fund_values' = Append(crystallised_fund_values, crystallised_fund)
    /\ total_fund_values' =
         Append(total_fund_values, RAdd(uncrystallised_fund, crystallised_fund))
    /\ incomes' = Append(incomes, income)
    /\ taxes' = Append(taxes, tax)
    /\ net_incomes' = Append(net_incomes, net_income)
    /\ shortfalls' = Append(shortfalls, shortfall)
    /\ age' = age + 1
    /\ pc' = "loop"
    /\ UNCHANGED <<input, locals, taxcall, returned>>

(***************************************************************************)
(* Lines 402-409: the loop is over and the eight series are returned.      *)
(***************************************************************************)
Return ==
    /\ pc = "loop"
    /\ ~LoopContinues
    /\ pc' = "done"
    /\ UNCHANGED <<input, age, locals, series, taxcall, returned>>

Next ==
    \/ Setup
    \/ Growth
    \/ PreRetirement
    \/ ImmediateCapital
    \/ RetirementTfc
    \/ PassiveIncome
    \/ Drawdown
    \/ TaxAndShortfall
    \/ Record
    \/ Return

Spec == Init /\ [][Next]_vars

(***************************************************************************)
(* Lines 651-685: the caller runs the projection again on the arguments it *)
(* still holds, keeping what the earlier run returned.  The call binds the *)
(* parameters anew; every other local, and the lists of the earlier run,   *)
(* are as that run left them until the function assigns them.              *)
(***************************************************************************)
CallAgain ==
    /\ pc = "done"
    /\ returned = << >>
    /\ returned' = [input |-> input, result |-> series]
    /\ retirement_age' = input.retirement_age
    /\ partial_tax_free_cash' = input.partial_tax_free_cash
    /\ ufpls_amount' = input.ufpls_amount
    /\ pc' = "start"
    /\ UNCHANGED <<input, age, uncrystallised_fund, crystallised_fund, annual_contribution,
                   state_pension_income_at_retirement,
                   annual_retirement_income_adjusted, max_tax_free_cash_available,
                   tax_free_cash, income, tax, net_income, shortfall, sp_income,
                   adjusted_db_pension, series, taxcall>>

TwiceNext ==
    \/ Next
    \/ CallAgain

TwiceSpec == Init /\ [][TwiceNext]_vars

(***************************************************************************)
(* calculate_taxes called on its own: a band table with strictly ascending *)
(* thresholds and non-negative rates, and two incomes taxed against it.    *)
(***************************************************************************)
Thresholds == <<Q(0), Q(10), Q(20), Q(30), Inf>>
Rates == {Zero, Frac(1, 5), Frac(1, 2)}
TaxableIncomes == {Q(0), Q(5), Q(10), Frac(25, 2), Q(20), Q(25), Q(30), Q(35)}

\* the strictly ascending selections of at most MaxBands thresholds
AscendingPicks ==
    {p \in UNION {[1 .. n -> 1 .. Len(Thresholds)] : n \in 1 .. MaxBands} :
        \A i \in 1 .. Len(p) - 1 : p[i] < p[i + 1]}

BandTables ==
    UNION {{[i \in 1 .. Len(p) |-> <<Thresholds[p[i]], r[i]>>] : r \in [1 .. Len(p) -> Rates]} :
           p \in AscendingPicks}

TaxInit ==
    /\ \E bands \in BandTables, income1 \in TaxableIncomes, income2 \in TaxableIncomes :
           tax_args = [tax_bands |-> bands, income1 |-> income1, income2 |-> income2]
    /\ tax_results = << >>
    /\ pc = "call"
    /\ input = << >>
    /\ age = 0
    /\ retirement_age = 0
    /\ partial_tax_free_cash = Zero
    /\ ufpls_amount = Zero
    /\ uncrystallised_fund = Zero
    /\ crystallised_fund = Zero
    /\ annual_contribution = Zero
    /\ state_pension_income_at_retirement = Zero
    /\ annual_retirement_income_adjusted = Zero
    /\ max_tax_free_cash_available = Zero
    /\ tax_free_cash = Zero
    /\ income = Zero
    /\ tax = Zero
    /\ net_income = Zero
    /\ shortfall = Zero
    /\ sp_income = Zero
    /\ adjusted_db_pension = Zero
    /\ years = << >>
    /\ uncrystallised_fund_values = << >>
    /\ crystallised_fund_values = << >>
    /\ total_fund_values = << >>
    /\ incomes = << >>
    /\ taxes = << >>
    /\ net_incomes = << >>
    /\ shortfalls = << >>
    /\ returned = << >>

\* the first, then the second income is taxed against the same table
TaxCall ==
    /\ pc = "call"
    /\ Len(tax_results) < 2
    /\ tax_results' =
         Append(tax_results,
                calculate_taxes(IF Len(tax_results) = 0 THEN tax_args.income1
                                ELSE tax_args.income2,
                                tax_args.tax_bands))
    /\ UNCHANGED <<input, pc, age, locals, series, tax_args, returned>>

TaxNext == TaxCall

TaxSpec == TaxInit /\ [][TaxNext]_vars

(***************************************************************************)
(* Notions the properties below are stated in.                             *)
(***************************************************************************)
Total == RAdd(uncrystallised_fund, crystallised_fund)
Records == 1 .. Len(years)
Engine == pc \notin {"start", "call"}

\* the record for age a, once appended
Recorded(a) == a - input.current_age + 1 \in Records
IndexOf(a) == a - input.current_age + 1

\* the total at the start of the current year, after the growth step
GrownTotal ==
    IF years = << >> THEN RMul(input.initial_fund, GrowthFactor)
    ELSE RAdd(RMul(uncrystallised_fund_values[Len(years)], GrowthFactor),
              crystallised_fund_values[Len(years)])

\* the year in which the UFPLS option is applied
UfplsTaken ==
    /\ input.strategy = Accumulation
    /\ input.tax_free_cash_option = Ufpls
    /\ age = retirement_age

\* the state and DB pension income in the income of the current year
PassiveOfYear ==
    IF age < retirement_age \/ UfplsTaken THEN Zero
    ELSE RAdd(StatePensionAt(age), DbPensionAt(age))

(***************************************************************************)
(* C1 (as claimed): in every record of a run, the uncrystallised fund and  *)
(* the crystallised fund are both >= 0.                                    *)
(***************************************************************************)
C1_FundsNeverNegative ==
    \A k \in Records :
        /\ RLe(Zero, uncrystallised_fund_values[k])
        /\ RLe(Zero, crystallised_fund_values[k])

(***************************************************************************)
(* C2 (as claimed): no crystallisation or withdrawal step (the immediate   *)
(* capital withdrawal, the tax-free cash option at retirement, the         *)
(* drawdown) makes uncrystallised + crystallised larger than it was        *)
(* immediately before the step.                                            *)
(***************************************************************************)
WithdrawalKeepsTotalDown ==
    pc \in {"immediate", "post", "drawdown"} =>
        RLe(RAdd(uncrystallised_fund', crystallised_fund'), Total)

C2_WithdrawalsNeverRaiseTotal == [][WithdrawalKeepsTotalDown]_vars

(***************************************************************************)
(* C3 (as claimed): the fall of uncrystallised + crystallised over the     *)
(* year's crystallisation and withdrawal steps (after growth and           *)
(* contributions) equals the part of the year's gross income drawn from    *)
(* the funds; a contributing year draws nothing.                           *)
(***************************************************************************)
C3_FallIsRecordedIncome ==
    pc = "record" =>
        IF age < retirement_age /\ input.strategy = Accumulation
        THEN income = Zero
        ELSE RSub(GrownTotal, Total) = RSub(income, PassiveOfYear)

(***************************************************************************)
(* C4 (as claimed): a UFPLS of amount A is split into a tax-free 0.25 A    *)
(* and a taxable 0.75 A, and the tax recorded for the year is the tax on   *)
(* 0.75 A, wherever the drawdown window lies.                              *)
(***************************************************************************)
C4_UfplsTaxedOnTaxablePortion ==
    UfplsTaken =>
        /\ pc = "passive" =>
              /\ tax_free_cash = RMul(ufpls_amount, Frac(1, 4))
              /\ RSub(income, tax_free_cash) = RMul(ufpls_amount, Frac(3, 4))
        /\ pc = "record" =>
              tax = calculate_taxes(RMul(ufpls_amount, Frac(3, 4)), input.tax_bands)

(***************************************************************************)
(* C5 (as claimed): under Decumulation Income (capital) with               *)
(* currentAge = retirementAge, a positive immediate capital goal and no    *)
(* existing tax-free cash, the first year withdraws                        *)
(* W = min(goal, 25% of initialFund) tax-free, W > 0 when the fund is:     *)
(* W is in the year's income and comes off the tax-free allowance, and     *)
(* (seen where no drawdown follows in that year) the uncrystallised fund   *)
(* is down by 4 W and the crystallised fund up by 3 W.                     *)
(***************************************************************************)
C5_ImmediateWithdrawalAtImmediateRetirement ==
    LET W == RMin(input.immediate_capital_goal, RMul(input.initial_fund, Frac(1, 4)))
    IN  ( /\ Engine
          /\ input.strategy = IncomeCapital
          /\ input.current_age = input.retirement_age
          /\ RLt(Zero, input.immediate_capital_goal)
          /\ input.existing_tfc_withdrawals = Zero
          /\ Len(years) >= 1 ) =>
        /\ RLt(Zero, input.initial_fund) => RLt(Zero, W)
        /\ RLe(W, incomes[1])
        /\ max_tax_free_cash_available = RSub(RMul(input.initial_fund, Frac(1, 4)), W)
        /\ ~(input.income_start_age <= years[1] /\ years[1] <= input.income_end_age) =>
              /\ uncrystallised_fund_values[1] =
                   RSub(RMul(input.initial_fund, GrowthFactor), RMul(W, Q(4)))
              /\ crystallised_fund_values[1] = RMul(W, Q(3))

(***************************************************************************)
(* C6: in every record shortfall >= 0, and in the record of every          *)
(* pre-retirement age shortfall = 0, whatever the strategy.                *)
(***************************************************************************)
C6_ShortfallNonNegative ==
    /\ \A k \in Records :
          /\ RLe(Zero, shortfalls[k])
          /\ years[k] < retirement_age => shortfalls[k] = Zero
    /\ pc = "record" =>
          /\ RLe(Zero, shortfall)
          /\ age < retirement_age => shortfall = Zero

\* a first, pre-retirement year of a decumulation run whose immediate withdrawal
\* left a net income below the target, recorded with no shortfall
C6_Witness ==
    /\ Engine
    /\ Len(years) >= 1
    /\ years[1] < retirement_age
    /\ input.strategy # Accumulation
    /\ RLt(Zero, incomes[1])
    /\ RLt(net_incomes[1], input.target_income)
    /\ shortfalls[1] = Zero

(***************************************************************************)
(* C7: when incomeStartAge > incomeEndAge the drawdown step of no year     *)
(* changes either fund or the income, and the income of a post-retirement  *)
(* year is the state and DB pension income alone (a UFPLS year records the *)
(* lump sum instead).                                                      *)
(***************************************************************************)
NoWindowStep ==
    (Engine /\ input.income_start_age > input.income_end_age) =>
        /\ pc = "drawdown" =>
              /\ uncrystallised_fund' = uncrystallised_fund
              /\ crystallised_fund' = crystallised_fund
              /\ income' = income
        /\ (pc = "record" /\ age >= retirement_age) =>
              income = (IF UfplsTaken THEN ufpls_amount ELSE PassiveOfYear)

C7_NoDrawdownWithoutWindow == [][NoWindowStep]_vars

\* past the drawdown step of a year that would have drawn from the
\* uncrystallised fund, had there been a window
C7_Witness ==
    /\ pc = "tax"
    /\ input.income_start_age > input.income_end_age
    /\ RLt(Zero, uncrystallised_fund)
    /\ RLt(income, annual_retirement_income_adjusted)
    /\ RLt(Zero, income)

(***************************************************************************)
(* C8: under Accumulation with Full tax-free cash and                      *)
(* currentAge <= retirementAge <= maxAge, the crystallised fund is 0 in    *)
(* every record before retirementAge; the crystallised fund grows in one   *)
(* step only, in the retirementAge year, which takes a quarter of the      *)
(* uncrystallised balance as cash and moves the other three quarters into  *)
(* the crystallised fund; and the uncrystallised fund is 0 in the record   *)
(* of retirementAge and of every later age.                                *)
(***************************************************************************)
FullTfcStep ==
    ( /\ Engine
      /\ input.strategy = Accumulation
      /\ input.tax_free_cash_option = FullTfc
      /\ input.current_age <= input.retirement_age
      /\ input.retirement_age <= input.max_age ) =>
        /\ \A k \in Records :
              IF years[k] < retirement_age
              THEN crystallised_fund_values[k] = Zero
              ELSE uncrystallised_fund_values[k] = Zero
        /\ RLt(crystallised_fund, crystallised_fund') =>
              (pc = "post" /\ age = retirement_age)
        /\ (pc = "post" /\ age = retirement_age) =>
              /\ tax_free_cash' = RMul(uncrystallised_fund, Frac(1, 4))
              /\ crystallised_fund' = RMul(uncrystallised_fund, Frac(3, 4))
              /\ uncrystallised_fund' = Zero

C8_FullTfcCrystallisesOnce == [][FullTfcStep]_vars

\* a run that saved before retirement and has recorded the retirement year
C8_Witness ==
    /\ Engine
    /\ input.strategy = Accumulation
    /\ input.tax_free_cash_option = FullTfc
    /\ input.current_age < input.retirement_age
    /\ Recorded(retirement_age + 1)
    /\ RLt(Zero, uncrystallised_fund_values[IndexOf(retirement_age - 1)])
    /\ RLt(Zero, crystallised_fund_values[IndexOf(retirement_age)])
    /\ uncrystallised_fund_values[IndexOf(retirement_age + 1)] = Zero

(***************************************************************************)
(* C9: against a band table with strictly ascending thresholds and         *)
(* non-negative rates, calculate_taxes is non-decreasing in the            *)
(* (non-negative) income, and the tax on an income of 0 is 0.              *)
(***************************************************************************)
C9_TaxMonotone ==
    /\ (Len(tax_results) >= 1 /\ tax_args.income1 = Zero) => tax_results[1] = Zero
    /\ Len(tax_results) = 2 =>
          /\ RLe(tax_args.income1, tax_args.income2) =>
                RLe(tax_results[1], tax_results[2])
          /\ RLe(tax_args.income2, tax_args.income1) =>
                RLe(tax_results[2], tax_results[1])

\* two incomes in different bands of a three-band table, the larger taxed more
C9_Witness ==
    /\ Len(tax_results) = 2
    /\ Len(tax_args.tax_bands) = 3
    /\ RLt(tax_args.tax_bands[2][1], tax_args.income2)
    /\ RLt(tax_args.income1, tax_args.tax_bands[1][1])
    /\ RLt(Zero, tax_results[1])
    /\ RLt(tax_results[1], tax_results[2])

(***************************************************************************)
(* C10: a run with currentAge <= maxAge terminates, after the maxAge year: *)
(* every step brings the end of the run closer, and the finished run has   *)
(* maxAge - currentAge + 1 entries in each of its eight series, the ages   *)
(* being currentAge, currentAge + 1, ..., maxAge in this order.            *)
(***************************************************************************)
BlocksLeft ==
    CASE pc = "loop" -> 7
      [] pc \in {"pre", "post"} -> 6
      [] pc \in {"immediate", "passive"} -> 5
      [] pc = "drawdown" -> 4
      [] pc = "tax" -> 3
      [] pc = "record" -> 1
      [] OTHER -> 0

\* the steps a run can still take, at most
StepsLeft ==
    CASE pc = "start" -> 8 * (input.max_age - input.current_age + 2) + 8
      [] pc = "done" -> 0
      [] OTHER -> 8 * (input.max_age + 1 - age) + BlocksLeft

RunLength == input.max_age - input.current_age + 1

StepTowardsEnd == StepsLeft' < StepsLeft /\ StepsLeft' >= 0

InTheFunction ==
    pc \in {"start", "loop", "pre", "immediate", "post", "passive", "drawdown", "tax",
            "record", "done"}

OneRecordPerAge ==
    (pc = "done" /\ input.current_age <= input.max_age) =>
        /\ Len(years) = RunLength
        /\ \A s \in {uncrystallised_fund_values, crystallised_fund_values,
                     total_fund_values, incomes, taxes, net_incomes, shortfalls} :
              Len(s) = RunLength
        /\ \A k \in 1 .. Len(years) : years[k] = input.current_age + k - 1

C10_TerminatesWithOneRecordPerAge ==
    [][StepTowardsEnd]_vars /\ []InTheFunction /\ []OneRecordPerAge

\* a finished run of more than one year
C10_Witness ==
    /\ pc = "done"
    /\ input.max_age > input.current_age
    /\ Len(years) = RunLength
    /\ years[Len(years)] = input.max_age

(***************************************************************************)
(* C12 (as claimed): the amount handed to the tax calculator is never      *)
(* negative: where a post-retirement year is about to be taxed, the        *)
(* tax-free cash subtracted from the income is a portion of that income,   *)
(* 0 <= tax_free_cash <= income, the retirement-age year of Full or        *)
(* Partial tax-free cash included.                                         *)
(***************************************************************************)
C12_TaxFreeCashWithinIncome ==
    pc = "tax" =>
        /\ RLe(Zero, tax_free_cash)
        /\ RLe(tax_free_cash, income)
        /\ RLe(Zero, RSub(income, tax_free_cash))

(***************************************************************************)
(* C13: the drawdown step of a year inside the window                      *)
(* [incomeStartAge, incomeEndAge] draws from at most one pool.  It never   *)
(* lowers both funds; while the uncrystallised fund has money and income   *)
(* is still needed it draws from that fund, as tax-free income with three  *)
(* times the amount moved into the crystallised fund; and it lowers the    *)
(* crystallised fund only if, at the start of the step, the uncrystallised *)
(* fund is <= 0 or the needed amount is zero.                              *)
(***************************************************************************)
OnePoolStep ==
    (pc = "drawdown" /\ InDrawdownWindow) =>
        LET needed == RMax(Zero, RSub(annual_retirement_income_adjusted, income))
            drawn == RSub(income', income)
        IN  /\ ~(RLt(uncrystallised_fund', uncrystallised_fund)
                   /\ RLt(crystallised_fund', crystallised_fund))
            /\ (RLt(Zero, uncrystallised_fund) /\ RLt(Zero, needed)) =>
                  /\ RLt(uncrystallised_fund', uncrystallised_fund)
                  /\ RLt(Zero, drawn)
                  /\ tax_free_cash' = drawn
                  /\ crystallised_fund' = RAdd(crystallised_fund, RMul(drawn, Q(3)))
            /\ RLt(crystallised_fund', crystallised_fund) =>
                  /\ RLe(uncrystallised_fund, Zero) \/ needed = Zero
                  /\ uncrystallised_fund' = uncrystallised_fund
                  /\ drawn = RSub(crystallised_fund, crystallised_fund')

OptionEffect ==
    LET quarter == RMul(uncrystallised_fund, Frac(1, 4))
    IN  CASE input.tax_free_cash_option = FullTfc ->
               /\ tax_free_cash' = quarter
               /\ uncrystallised_fund' = Zero
               /\ crystallised_fund' =
                    RAdd(crystallised_fund, RMul(uncrystallised_fund, Frac(3, 4)))
               /\ income' = income
          [] input.tax_free_cash_option = PartialTfc ->
               LET cash == RMin(partial_tax_free_cash, quarter)
               IN  /\ tax_free_cash' = cash
                   /\ uncrystallised_fund' = RSub(uncrystallised_fund, RMul(cash, Q(4)))
                   /\ crystallised_fund' = RAdd(crystallised_fund, RMul(cash, Q(3)))
                   /\ income' = income
          [] input.tax_free_cash_option = Ufpls ->
               LET lump == RMin(ufpls_amount, uncrystallised_fund)
               IN  /\ tax_free_cash' = RMul(lump, Frac(1, 4))
                   /\ uncrystallised_fund' = RSub(uncrystallised_fund, lump)
                   /\ crystallised_fund' = crystallised_fund
                   /\ income' = lump
          [] OTHER ->
               /\ tax_free_cash' = Zero
               /\ uncrystallised_fund' = uncrystallised_fund
               /\ crystallised_fund' = crystallised_fund
               /\ income' = income

OptionStep ==
    pc = "post" =>
        /\ age >= retirement_age
        /\ IF input.strategy = Accumulation /\ age = input.retirement_age
           THEN OptionEffect
           ELSE UNCHANGED <<uncrystallised_fund, crystallised_fund, tax_free_cash, income,
                            tax, net_income, shortfall, partial_tax_free_cash,
                            ufpls_amount>>

RetirementYearOnce ==
    ( /\ pc = "done"
      /\ input.strategy = Accumulation
      /\ input.current_age <= input.retirement_age
      /\ input.retirement_age <= input.max_age ) =>
        Cardinality({k \in Records : years[k] = input.retirement_age}) = 1

C14_OptionAppliedOnceAtRetirement == [][OptionStep]_vars /\ []RetirementYearOnce

\* a finished Accumulation run with years before and after the retirement
\* age, whose Partial tax-free cash crystallised money in the retirement year
C14_Witness ==
    /\ pc = "done"
    /\ input.strategy = Accumulation
    /\ input.tax_free_cash_option = PartialTfc
    /\ input.current_age < input.retirement_age
    /\ input.retirement_age < input.max_age
    /\ crystallised_fund_values[IndexOf(input.retirement_age - 1)] = Zero
    /\ RLt(Zero, crystallised_fund_values[IndexOf(input.retirement_age)])
    /\ RLt(Zero, uncrystallised_fund_values[IndexOf(input.retirement_age)])

(***************************************************************************)
(* C15: the record of a pre-retirement age (age < retirementAge) has       *)
(* grossIncome = taxPaid = netIncome = shortfall = 0 under Accumulation,   *)
(* and under a decumulation strategy at every age but the first simulated  *)
(* one, and at that one too when immediateCapitalGoal = 0.  At the first   *)
(* simulated age of a Decumulation-capital-only run with a goal > 0 the    *)
(* income is min(immediateCapitalGoal, uncrystallised fund), it comes off  *)
(* the uncrystallised fund, the tax is the tax on the whole of it and the  *)
(* net income is the income less that tax.                                 *)
(***************************************************************************)
FirstAgeWithGoal(a) ==
    /\ a = input.current_age
    /\ input.strategy \in {CapitalOnly, IncomeCapital}
    /\ RLt(Zero, input.immediate_capital_goal)

C15_PreRetirementIncome ==
    /\ \A k \in Records :
          (Engine /\ years[k] < retirement_age /\ ~FirstAgeWithGoal(years[k])) =>
              /\ incomes[k] = Zero
              /\ taxes[k] = Zero
              /\ net_incomes[k] = Zero
              /\ shortfalls[k] = Zero
    /\ (pc = "record" /\ age < retirement_age) =>
          /\ ~FirstAgeWithGoal(age) =>
                /\ income = Zero
                /\ tax = Zero
                /\ net_income = Zero
                /\ shortfall = Zero
          /\ (FirstAgeWithGoal(age) /\ input.strategy = CapitalOnly) =>
                LET grown == RMul(input.initial_fund, GrowthFactor)
                    withdrawn == RMin(input.immediate_capital_goal, grown)
                IN  /\ income = withdrawn
                    /\ uncrystallised_fund = RSub(grown, withdrawn)
                    /\ crystallised_fund = Zero
                    /\ tax = calculate_taxes(withdrawn, input.tax_bands)
                    /\ net_income = RSub(withdrawn, tax)

\* a Decumulation-capital-only run that has recorded a taxed immediate
\* withdrawal at its first age and an incomeless second pre-retirement age
C15_Witness ==
    /\ Engine
    /\ input.strategy = CapitalOnly
    /\ Len(years) >= 2
    /\ years[2] < retirement_age
    /\ RLt(Zero, taxes[1])
    /\ RLt(taxes[1], incomes[1])
    /\ RLt(Zero, uncrystallised_fund_values[1])
    /\ incomes[2] = Zero

(***************************************************************************)
(* C16: for a non-negative income and a band table with strictly ascending *)
(* thresholds, calculate_taxes returns the sum, over all the bands of the  *)
(* table, of rate * max(0, min(income, threshold) - previousThreshold),    *)
(* previousThreshold being the threshold of the band before (0 for the     *)
(* first band): stopping the walk at the first band with                   *)
(* income <= previousThreshold loses nothing.                              *)
(***************************************************************************)
\* the slice of income inc in band k of the table
SliceOf(inc, bands, k) ==
    RMax(Zero, RSub(RMin(inc, bands[k][1]),
                    IF k = 1 THEN Zero ELSE bands[k - 1][1]))

\* the tax of bands 1 .. k, every band walked
RECURSIVE SumOfSlices(_, _, _)
SumOfSlices(inc, bands, k) ==
    IF k = 0 THEN Zero
    ELSE RAdd(SumOfSlices(inc, bands, k - 1), RMul(bands[k][2], SliceOf(inc, bands, k)))

C16_TaxIsSumOverAllBands ==
    pc = "call" =>
        /\ Len(tax_results) >= 1 =>
              tax_results[1] =
                  SumOfSlices(tax_args.income1, tax_args.tax_bands, Len(tax_args.tax_bands))
        /\ Len(tax_results) = 2 =>
              tax_results[2] =
                  SumOfSlices(tax_args.income2, tax_args.tax_bands, Len(tax_args.tax_bands))

\* a three-band table with taxing rates in every band: the first income ends
\* in the first band, where the walk stops early; the second reaches the last
C16_Witness ==
    /\ pc = "call"
    /\ Len(tax_results) = 2
    /\ Len(tax_args.tax_bands) = 3
    /\ \A k \in 1 .. 3 : RLt(Zero, tax_args.tax_bands[k][2])
    /\ RLt(Zero, tax_args.income1)
    /\ RLe(tax_args.income1, tax_args.tax_bands[1][1])
    /\ RLt(tax_args.tax_bands[2][1], tax_args.income2)
    /\ RLt(Zero, tax_results[1])
    /\ RLt(RMul(tax_args.tax_bands[1][1], tax_args.tax_bands[1][2]), tax_results[2])

(***************************************************************************)
(* C11: a second run of project_pension on the same arguments returns the  *)
(* same eight series as the first: no step of a run changes the caller's   *)
(* arguments, and the run that follows an earlier one ends with the result *)
(* the earlier one returned, whatever that run left behind.                *)
(***************************************************************************)
ArgumentsKept == input' = input

SameResultAgain ==
    (pc = "done" /\ returned # << >>) =>
        /\ input = returned.input
        /\ series = returned.result

C11_SecondRunSameResult == [][ArgumentsKept]_vars /\ []SameResultAgain

\* the end of a second run of several years, the first of which withdrew
\* money and capped the partial tax-free cash it was asked for
C11_Witness ==
    /\ pc = "done"
    /\ returned # << >>
    /\ Len(years) >= 2
    /\ RLt(Zero, incomes[Len(years)])
    /\ RLt(partial_tax_free_cash, input.partial_tax_free_cash)
    /\ series = returned.result

====
